---- MODULE Spec2Model ----
(***************************************************************************)
(* Model of the inter-annotator-agreement tool: annotation.py (bracket     *)
(* scan of a whitespace-split text), interannotatoragreement.py (naive     *)
(* accuracy, ngreement, group Levenshtein distance) and the calling        *)
(* sequence of main.py.                                                    *)
(*                                                                         *)
(* Texts are sequences of one-character strings.  Python lists are         *)
(* sequences, Python sets are sets, token indices are 0-based as in the    *)
(* code (text_split[num + 1] is Python's text_split[num]).  Python floats  *)
(* that arise from integer divisions are modelled as exact rationals       *)
(* <<numerator, denominator>> in lowest terms; a call that raises leaves   *)
(* the exception's name in the raised field of its result.                 *)
(***************************************************************************)
EXTENDS Integers, Sequences, FiniteSets, TLC

VARIABLES pc, text1, text2, ao1, ao2, err, call, result,
          lev_pc, lev_ref, lev_comp, lev_fwd, lev_bwd,
          scan_pc, scan_text_split, scan_num, scan, scan_prev, scan_opened,
          rec_pc, rec_ref, rec_comp, rec_depth, rec_acc, rec_caller, rec_top,
          rec_rule

vars == <<pc, text1, text2, ao1, ao2, err, call, result,
          lev_pc, lev_ref, lev_comp, lev_fwd, lev_bwd,
          scan_pc, scan_text_split, scan_num, scan, scan_prev, scan_opened,
          rec_pc, rec_ref, rec_comp, rec_depth, rec_acc, rec_caller, rec_top,
          rec_rule>>

main_vars == <<pc, text1, text2, ao1, ao2, err, call, result>>

lev_vars == <<lev_pc, lev_ref, lev_comp, lev_fwd, lev_bwd>>

scan_vars == <<scan_pc, scan_text_split, scan_num, scan, scan_prev, scan_opened>>

rec_vars == <<rec_pc, rec_ref, rec_comp, rec_depth, rec_acc, rec_caller, rec_top,
              rec_rule>>

(* ------------------------------ bounds --------------------------------- *)

\* longest text, in tokens
MaxTokens == 3

\* largest exponent n passed to mean_ngreement
MaxN == 2

\* group sequences given to levenshtein range over token indices 0..MaxIdx-1
MaxIdx == 5

(* ------------------------- strings and lists --------------------------- *)

\* exception names; NoError marks a call that returned normally
NoError == "none"

ValueError == "ValueError"

UnboundLocalError == "UnboundLocalError"

DifferentTextException == "DifferentTextException"

ZeroDivisionError == "ZeroDivisionError"

opening_bracket == <<"[">>

closing_bracket == <<"]">>

\* the characters str.split() treats as separators
Whitespace == {" ", "\t", "\n"}

\* the argument of word.rstrip(...)
RStripChars == {",", ".", ";", ":", "-", "?", "!", "'", "\"", ")"}

\* str.startswith(prefix)
StartsWith(word, prefix) ==
    /\ Len(prefix) <= Len(word)
    /\ SubSeq(word, 1, Len(prefix)) = prefix

\* str.endswith(suffix)
EndsWith(word, suffix) ==
    /\ Len(suffix) <= Len(word)
    /\ SubSeq(word, Len(word) - Len(suffix) + 1, Len(word)) = suffix

\* str.rstrip(chars): drop every trailing character that is in chars
RECURSIVE RStrip(_, _)
RStrip(word, chars) ==
    IF word # <<>> /\ word[Len(word)] \in chars
    THEN RStrip(SubSeq(word, 1, Len(word) - 1), chars)
    ELSE word

\* str.split(): the maximal runs of non-whitespace characters, in order
RECURSIVE SplitFrom(_, _, _, _)
SplitFrom(text, i, cur, acc) ==
    IF i > Len(text)
    THEN IF cur = <<>> THEN acc ELSE Append(acc, cur)
    ELSE IF text[i] \in Whitespace
         THEN SplitFrom(text, i + 1, <<>>, IF cur = <<>> THEN acc ELSE Append(acc, cur))
         ELSE SplitFrom(text, i + 1, Append(cur, text[i]), acc)

Split(text) == SplitFrom(text, 1, <<>>, <<>>)

\* set(list)
ToSet(s) == {s[i] : i \in 1..Len(s)}

\* x in list
InList(x, s) == \E i \in 1..Len(s) : s[i] = x

\* list[a:]  (0-based start, as in Python)
Drop(s, a) == SubSeq(s, a + 1, Len(s))

\* list[:b]
Take(s, b) == SubSeq(s, 1, IF b < Len(s) THEN b ELSE Len(s))

(* ------------------------------ rationals ------------------------------ *)

RECURSIVE Gcd(_, _)
Gcd(a, b) == IF b = 0 THEN a ELSE Gcd(b, a % b)

\* the rational num/den in lowest terms, den > 0
Frac(num, den) ==
    LET g == Gcd(IF num < 0 THEN -num ELSE num, den)
    IN  <<num \div g, den \div g>>

FracAdd(x, y) == Frac(x[1] * y[2] + y[1] * x[2], x[2] * y[2])

\* an int as a rational
Int2Frac(k) == <<k, 1>>

\* Python's x / y raises ZeroDivisionError exactly when y is zero
DivRaises(y) == y[1] = 0

\* Python's x / y on numbers, for y # 0
TrueDiv(x, y) ==
    IF y[1] < 0 THEN Frac(-(x[1] * y[2]), -(x[2] * y[1]))
    ELSE Frac(x[1] * y[2], x[2] * y[1])

FracLeq(x, y) == x[1] * y[2] <= y[1] * x[2]

\* base ** n for n >= 0
RECURSIVE Pow(_, _)
Pow(base, n) == IF n = 0 THEN 1 ELSE base * Pow(base, n - 1)

(* --------------------------- annotation.py ----------------------------- *)

\* the fields of an Annotation, with the outcome of its construction
NoAnnotation ==
    [status |-> "none", text_split |-> <<>>, annotated_indices |-> {},
     annotated_indices_groups |-> <<>>, not_annotated_indices_groups |-> <<>>]

\* the locals and fields of _extract_indices before its loop; group is
\* not bound to a value until an opening bracket is seen
ScanStart ==
    [in_brackets |-> FALSE, group_bound |-> FALSE, group |-> <<>>,
     annotated_indices |-> {}, annotated_indices_groups |-> <<>>,
     not_annotated_indices_groups |-> <<>>, raised |-> NoError]

\* one iteration of the loop of _extract_indices, on token num
ExtractStep(s, num, word) ==
    LET opens == StartsWith(word, opening_bracket)
        closes == EndsWith(RStrip(word, RStripChars), closing_bracket)
        s1 == IF opens
              THEN [s EXCEPT !.in_brackets = TRUE, !.group_bound = TRUE, !.group = <<>>]
              ELSE s
        s2 == IF s1.in_brackets
              THEN [s1 EXCEPT !.annotated_indices = @ \cup {num},
                              !.group = Append(@, num)]
              ELSE s1
    IN  IF closes
        THEN IF s2.group_bound
             THEN [s2 EXCEPT !.in_brackets = FALSE,
                             !.annotated_indices_groups = Append(@, s2.group)]
             ELSE [s2 EXCEPT !.in_brackets = FALSE, !.raised = UnboundLocalError]
        ELSE IF ~s2.in_brackets
             THEN [s2 EXCEPT !.not_annotated_indices_groups = Append(@, <<num>>)]
             ELSE s2

\* the loop of _extract_indices from token num on; an exception ends it
RECURSIVE ExtractFrom(_, _, _)
ExtractFrom(s, num, text_split) ==
    IF num >= Len(text_split) \/ s.raised # NoError
    THEN s
    ELSE ExtractFrom(ExtractStep(s, num, text_split[num + 1]), num + 1, text_split)

_extract_indices(text_split) == ExtractFrom(ScanStart, 0, text_split)

\* Annotation(text) with the default brackets
Annotation(text) ==
    IF text = <<>>
    THEN [NoAnnotation EXCEPT !.status = ValueError]
    ELSE LET ts == Split(text)
             s == _extract_indices(ts)
         IN  IF s.raised # NoError
             THEN [NoAnnotation EXCEPT !.status = s.raised]
             ELSE [status |-> "ok", text_split |-> ts,
                   annotated_indices |-> s.annotated_indices,
                   annotated_indices_groups |-> s.annotated_indices_groups,
                   not_annotated_indices_groups |-> s.not_annotated_indices_groups]

(* --------------------- interannotatoragreement.py ---------------------- *)

\* the value a metric call leaves: the exception it raised (or NoError),
\* and the parts of its return value that the metric sets
NoResult ==
    [raised |-> NoError, counts |-> <<0, 0, 0>>, value |-> <<0, 1>>,
     distance |-> 0, n |-> 0]

\* InterAnnotatorAgreement.__init__ raises when the token counts differ
IAARaises(a1, a2) == Len(a1.text_split) # Len(a2.text_split)

\* naive_count_agreement counting as disagreements only the indices
\* annotated in the first annotation alone
naive_count_agreement_one_sided(a1, a2) ==
    LET same_in_bracket_count ==
            Cardinality(a1.annotated_indices \cap a2.annotated_indices)
        disagree_count ==
            Cardinality(a1.annotated_indices \ a2.annotated_indices)
        same_not_bracket_count ==
            Len(a1.text_split) - same_in_bracket_count - disagree_count
    IN  <<same_in_bracket_count, same_not_bracket_count, disagree_count>>

\* (same_in_bracket_count, same_not_bracket_count, disagree_count)
naive_count_agreement(a1, a2) ==
    LET same_in_bracket_count ==
            Cardinality(a1.annotated_indices \cap a2.annotated_indices)
        disagree_count ==
            Cardinality((a1.annotated_indices \ a2.annotated_indices)
                        \cup (a2.annotated_indices \ a1.annotated_indices))
        same_not_bracket_count ==
            Len(a1.text_split) - same_in_bracket_count - disagree_count
    IN  <<same_in_bracket_count, same_not_bracket_count, disagree_count>>

naive_accuracy(a1, a2) ==
    LET c == naive_count_agreement(a1, a2)
        num == Int2Frac(c[1] + c[2])
        den == Int2Frac(c[1] + c[2] + c[3])
    IN  IF DivRaises(den)
        THEN [NoResult EXCEPT !.raised = ZeroDivisionError, !.counts = c]
        ELSE [NoResult EXCEPT !.counts = c, !.value = TrueDiv(num, den)]

\* the slices ngram_indices[j:i] for i = upto down to 1 and j = 0..i-1
RECURSIVE SubgramsFrom(_, _)
SubgramsFrom(ngram_indices, upto) ==
    IF upto = 0 THEN <<>>
    ELSE [j \in 1..upto |-> SubSeq(ngram_indices, j, upto)]
         \o SubgramsFrom(ngram_indices, upto - 1)

get_subgrams(ngram_indices) == SubgramsFrom(ngram_indices, Len(ngram_indices))

\* GroupScore with the early exit taken at equal first indices as well
RECURSIVE GroupScoreBreakAtEqual(_, _, _, _)
GroupScoreBreakAtEqual(group, subgrams, k, n) ==
    IF k >= Len(subgrams) THEN 0
    ELSE LET subgram == subgrams[k + 1]
         IN  IF group[1] <= subgram[1][1] THEN 0
             ELSE IF ~InList(group[1], subgram[1])
                  THEN GroupScoreBreakAtEqual(group, subgrams, k + 1, n)
                  ELSE IF InList(group, subgram)
                       THEN Pow(Len(group), n)
                       ELSE GroupScoreBreakAtEqual(group, subgrams, k + 1, n)

\* the inner loop of ngreement for one comparison group, from the k-th
\* (0-based) subgram list on: what it adds to score
RECURSIVE GroupScore(_, _, _, _)
GroupScore(group, subgrams, k, n) ==
    IF k >= Len(subgrams) THEN 0
    ELSE LET subgram == subgrams[k + 1]
         IN  IF group[1] < subgram[1][1] THEN 0
             ELSE IF ~InList(group[1], subgram[1])
                  THEN GroupScore(group, subgrams, k + 1, n)
                  ELSE IF InList(group, subgram)
                       THEN Pow(Len(group), n)
                       ELSE GroupScore(group, subgrams, k + 1, n)

\* the sum over the k-th and later groups of f-values len(group)**n
RECURSIVE MaxScoreFrom(_, _, _)
MaxScoreFrom(groups, k, n) ==
    IF k > Len(groups) THEN 0
    ELSE Pow(Len(groups[k]), n) + MaxScoreFrom(groups, k + 1, n)

RECURSIVE ScoreFrom(_, _, _, _)
ScoreFrom(groups, subgrams, k, n) ==
    IF k > Len(groups) THEN 0
    ELSE GroupScore(groups[k], subgrams, 0, n) + ScoreFrom(groups, subgrams, k + 1, n)

ngreement(indice_groups_ref, indice_groups_comp, n) ==
    LET subgrams == [k \in 1..Len(indice_groups_ref) |->
                        get_subgrams(indice_groups_ref[k])]
        max_score == MaxScoreFrom(indice_groups_ref, 1, n)
        score == ScoreFrom(indice_groups_comp, subgrams, 1, n)
    IN  IF max_score = 0 THEN <<0, 1>>
        ELSE TrueDiv(Int2Frac(score), Int2Frac(max_score))

mean_ngreement(a1, a2, n) ==
    LET annotated_acc1 ==
            ngreement(a1.annotated_indices_groups, a2.annotated_indices_groups, n)
        not_annotated_acc1 ==
            ngreement(a1.not_annotated_indices_groups,
                      a2.not_annotated_indices_groups, n)
        annotated_acc2 ==
            ngreement(a2.annotated_indices_groups, a1.annotated_indices_groups, n)
        not_annotated_acc2 ==
            ngreement(a2.not_annotated_indices_groups,
                      a1.not_annotated_indices_groups, n)
        total == FracAdd(FracAdd(FracAdd(annotated_acc1, annotated_acc2),
                                 not_annotated_acc1), not_annotated_acc2)
    IN  [NoResult EXCEPT !.value = TrueDiv(total, Int2Frac(4)), !.n = n]

\* is_compatible returning from the first iteration of its loop
is_compatible_first_only(group_ref, group_comp) ==
    group_comp # <<>> /\ InList(group_comp[1], group_ref)

is_compatible(group_ref, group_comp) ==
    \E k \in 1..Len(group_comp) : InList(group_comp[k], group_ref)

\* _transform_groups_cost without the merge cost
transform_groups_cost_no_merge(group_ref, indices_groups_comp) ==
    LET set_ref == ToSet(group_ref)
        set_comp == UNION {ToSet(indices_groups_comp[k]) :
                              k \in 1..Len(indices_groups_comp)}
    IN  Cardinality((set_ref \ set_comp) \cup (set_comp \ set_ref))

_transform_groups_cost(group_ref, indices_groups_comp) ==
    LET set_ref == ToSet(group_ref)
        set_comp == UNION {ToSet(indices_groups_comp[k]) :
                              k \in 1..Len(indices_groups_comp)}
        add_delete_cost == Cardinality((set_ref \ set_comp) \cup (set_comp \ set_ref))
        merge_cost == Len(indices_groups_comp) - 1
    IN  add_delete_cost + merge_cost

\* the loops of _find_compatible_index_boundary from group num1 (0-based)
\* on; the code is only called with a non-empty indices_groups_comp
RECURSIVE BoundaryFrom(_, _, _)
BoundaryFrom(group_ref, indices_groups_comp, num1) ==
    IF num1 >= Len(indices_groups_comp) THEN Len(indices_groups_comp)
    ELSE LET group == indices_groups_comp[num1 + 1]
             misses == {k \in 1..Len(group) : ~InList(group[k], group_ref)}
         IN  IF misses = {}
             THEN BoundaryFrom(group_ref, indices_groups_comp, num1 + 1)
             ELSE IF 1 \in misses THEN num1 ELSE num1 + 1

_find_compatible_index_boundary(group_ref, indices_groups_comp) ==
    BoundaryFrom(group_ref, indices_groups_comp, 0)

\* LevCall whose transform of the reference side recurses on the
\* comparison list without dropping its leading group
LevCallKeepsComp(indices_groups_ref, indices_groups_comp) ==
    LET ref == indices_groups_ref
        comp == indices_groups_comp
        Ret(rule, base, cost, r, c) ==
            [rule |-> rule, base |-> base, cost |-> cost, ref |-> r, comp |-> c]
    IN  IF Len(ref) = 0 /\ Len(comp) = 0 THEN Ret("empty", TRUE, 0, <<>>, <<>>)
        ELSE IF Len(ref) = 0 THEN Ret("superfluous", TRUE, Len(comp), <<>>, <<>>)
        ELSE IF Len(comp) = 0 THEN Ret("missing", TRUE, Len(ref), <<>>, <<>>)
        ELSE IF ref[1] = comp[1] THEN Ret("equal", FALSE, 0, Drop(ref, 1), Drop(comp, 1))
        ELSE IF is_compatible(ref[1], comp[1])
        THEN LET compatible_index_boundary_in_ref ==
                     _find_compatible_index_boundary(comp[1], ref)
                 compatible_index_boundary_in_comp ==
                     _find_compatible_index_boundary(ref[1], comp)
             IN  IF compatible_index_boundary_in_ref < compatible_index_boundary_in_comp
                 THEN Ret("transform_comp", FALSE,
                          _transform_groups_cost(ref[1],
                              Take(comp, compatible_index_boundary_in_comp)),
                          Drop(ref, 1), Drop(comp, compatible_index_boundary_in_comp))
                 ELSE Ret("transform_ref", FALSE,
                          _transform_groups_cost(comp[1],
                              Take(ref, compatible_index_boundary_in_ref)),
                          Drop(ref, compatible_index_boundary_in_ref), comp)
        ELSE IF ref[1][1] < comp[1][1]
             THEN Ret("skip_ref", FALSE, 1, Drop(ref, 1), comp)
             ELSE Ret("skip_comp", FALSE, 1, ref, Drop(comp, 1))

\* one activation of levenshtein: whether it returns without recursing
\* (base), the cost it adds, and the arguments of its recursive call
LevCall(indices_groups_ref, indices_groups_comp) ==
    LET ref == indices_groups_ref
        comp == indices_groups_comp
        Ret(rule, base, cost, r, c) ==
            [rule |-> rule, base |-> base, cost |-> cost, ref |-> r, comp |-> c]
    IN  IF Len(ref) = 0 /\ Len(comp) = 0 THEN Ret("empty", TRUE, 0, <<>>, <<>>)
        ELSE IF Len(ref) = 0 THEN Ret("superfluous", TRUE, Len(comp), <<>>, <<>>)
        ELSE IF Len(comp) = 0 THEN Ret("missing", TRUE, Len(ref), <<>>, <<>>)
        ELSE IF ref[1] = comp[1] THEN Ret("equal", FALSE, 0, Drop(ref, 1), Drop(comp, 1))
        ELSE IF is_compatible(ref[1], comp[1])
        THEN LET compatible_index_boundary_in_ref ==
                     _find_compatible_index_boundary(comp[1], ref)
                 compatible_index_boundary_in_comp ==
                     _find_compatible_index_boundary(ref[1], comp)
             IN  IF compatible_index_boundary_in_ref < compatible_index_boundary_in_comp
                 THEN Ret("transform_comp", FALSE,
                          _transform_groups_cost(ref[1],
                              Take(comp, compatible_index_boundary_in_comp)),
                          Drop(ref, 1), Drop(comp, compatible_index_boundary_in_comp))
                 ELSE Ret("transform_ref", FALSE,
                          _transform_groups_cost(comp[1],
                              Take(ref, compatible_index_boundary_in_ref)),
                          Drop(ref, compatible_index_boundary_in_ref), Drop(comp, 1))
        ELSE IF ref[1][1] < comp[1][1]
             THEN Ret("skip_ref", FALSE, 1, Drop(ref, 1), comp)
             ELSE Ret("skip_comp", FALSE, 1, ref, Drop(comp, 1))

RECURSIVE levenshtein(_, _)
levenshtein(indices_groups_ref, indices_groups_comp) ==
    LET c == LevCall(indices_groups_ref, indices_groups_comp)
    IN  IF c.base THEN c.cost ELSE c.cost + levenshtein(c.ref, c.comp)

\* levenshtein_incl_normalized dividing by the larger markable count
levenshtein_incl_normalized_by_max(a1, a2) ==
    LET distance == levenshtein(a1.annotated_indices_groups, a2.annotated_indices_groups)
        markable_count1 == Len(a1.annotated_indices_groups)
        markable_count2 == Len(a2.annotated_indices_groups)
        max_count == Int2Frac(IF markable_count1 > markable_count2
                              THEN markable_count1 ELSE markable_count2)
    IN  IF DivRaises(max_count)
        THEN [NoResult EXCEPT !.raised = ZeroDivisionError, !.distance = distance]
        ELSE [NoResult EXCEPT !.distance = distance,
                              !.value = TrueDiv(Int2Frac(distance), max_count)]

levenshtein_incl_normalized(a1, a2) ==
    LET distance == levenshtein(a1.annotated_indices_groups, a2.annotated_indices_groups)
        markable_count1 == Len(a1.annotated_indices_groups)
        markable_count2 == Len(a2.annotated_indices_groups)
        mean_count == TrueDiv(Int2Frac(markable_count1 + markable_count2), Int2Frac(2))
    IN  IF DivRaises(mean_count)
        THEN [NoResult EXCEPT !.raised = ZeroDivisionError, !.distance = distance]
        ELSE [NoResult EXCEPT !.distance = distance,
                              !.value = TrueDiv(Int2Frac(distance), mean_count)]

(* ------------------------------- inputs -------------------------------- *)

\* tokens: plain, opening, closing before punctuation, opening and closing
Vocabulary ==
    { <<"a">>, <<"[", "a">>, <<"a", "]", ".">>, <<"[", "a", "]">> }

\* tokens with brackets or punctuation where they mark nothing
OddWords ==
    { <<"]", "[">>, <<"a", "[">>, <<".", "]", "a">>, <<"[", ".">> }

\* " ".join(words)
RECURSIVE Join(_)
Join(words) ==
    IF Len(words) = 0 THEN <<>>
    ELSE IF Len(words) = 1 THEN words[1]
         ELSE words[1] \o <<" ">> \o Join(Tail(words))

\* the texts given on the command line: empty, whitespace only, up to
\* MaxTokens tokens, and single tokens surrounded by whitespace
Texts ==
    {<<>>, <<" ">>, <<"\n", "\t">>}
    \cup {Join(ws) : ws \in UNION {[1..t -> Vocabulary] : t \in 1..MaxTokens}}
    \cup {<<" ">> \o w \o <<"\n">> : w \in OddWords}

\* the group list a labelling of the indices 0..MaxIdx-1 stands for:
\* "o" is outside every group, "b" begins a group, "c" continues one
RECURSIVE GroupsOf(_, _, _, _)
GroupsOf(label, i, cur, acc) ==
    LET closed == IF cur = <<>> THEN acc ELSE Append(acc, cur)
    IN  IF i >= MaxIdx THEN closed
        ELSE IF label[i] = "b" THEN GroupsOf(label, i + 1, <<i>>, closed)
        ELSE IF label[i] = "c" THEN GroupsOf(label, i + 1, Append(cur, i), acc)
        ELSE GroupsOf(label, i + 1, <<>>, closed)

\* every list of pairwise disjoint groups of consecutive indices below
\* MaxIdx, in ascending order
GroupSeqs ==
    {GroupsOf(label, 0, <<>>, <<>>) :
        label \in {l \in [0..(MaxIdx - 1) -> {"o", "b", "c"}] :
                      /\ l[0] # "c"
                      /\ \A i \in 1..(MaxIdx - 1) : l[i] = "c" => l[i - 1] # "o"}}

\* the group lists of the demo
groups1 == <<<<0>>, <<3>>, <<9>>, <<13>>, <<16>>, <<19>>, <<20>>, <<23>>, <<24, 25>>>>

groups2 == <<<<0>>, <<3>>, <<9>>, <<13>>, <<16>>, <<19>>, <<20>>, <<23>>, <<25>>>>

\* the second comparison list of the documented example
groups2b ==
    <<<<0>>, <<3>>, <<9>>, <<13>>, <<16>>, <<19, 20>>, <<23>>, <<24, 25, 26>>, <<27>>>>

LevInputs ==
    (GroupSeqs \X GroupSeqs) \cup {<<groups1, groups2>>, <<groups1, groups2b>>}

(* ------------------- main.py: command_line_execution ------------------- *)

MainIdle ==
    /\ pc = "idle" /\ text1 = <<>> /\ text2 = <<>>
    /\ ao1 = NoAnnotation /\ ao2 = NoAnnotation
    /\ err = NoError /\ call = "none" /\ result = NoResult

LevIdle ==
    /\ lev_pc = "idle" /\ lev_ref = <<>> /\ lev_comp = <<>>
    /\ lev_fwd = 0 /\ lev_bwd = 0

ScanIdle ==
    /\ scan_pc = "idle" /\ scan_text_split = <<>> /\ scan_num = 0
    /\ scan = ScanStart /\ scan_prev = ScanStart /\ scan_opened = -1

RecIdle ==
    /\ rec_pc = "idle" /\ rec_ref = <<>> /\ rec_comp = <<>>
    /\ rec_depth = 0 /\ rec_acc = 0
    /\ rec_caller = <<<<>>, <<>>>> /\ rec_top = <<<<>>, <<>>>>
    /\ rec_rule = "none"

Init ==
    /\ pc = "start"
    /\ text1 \in Texts
    /\ text2 \in Texts
    /\ ao1 = NoAnnotation
    /\ ao2 = NoAnnotation
    /\ err = NoError
    /\ call = "none"
    /\ result = NoResult
    /\ LevIdle
    /\ ScanIdle
    /\ RecIdle

\* ao1 = Annotation(text1, ...); an exception ends the program
ConstructAo1 ==
    /\ pc = "start"
    /\ ao1' = Annotation(text1)
    /\ pc' = IF ao1'.status = "ok" THEN "ao1" ELSE "exit"
    /\ err' = IF ao1'.status = "ok" THEN NoError ELSE ao1'.status
    /\ UNCHANGED <<text1, text2, ao2, call, result, lev_vars, scan_vars, rec_vars>>

\* ao2 = Annotation(text2, ...)
ConstructAo2 ==
    /\ pc = "ao1"
    /\ ao2' = Annotation(text2)
    /\ pc' = IF ao2'.status = "ok" THEN "ao2" ELSE "exit"
    /\ err' = IF ao2'.status = "ok" THEN NoError ELSE ao2'.status
    /\ UNCHANGED <<text1, text2, ao1, call, result, lev_vars, scan_vars, rec_vars>>

\* iaa = InterAnnotatorAgreement(ao1, ao2)
ConstructIAA ==
    /\ pc = "ao2"
    /\ pc' = IF IAARaises(ao1, ao2) THEN "exit" ELSE "iaa"
    /\ err' = IF IAARaises(ao1, ao2) THEN DifferentTextException ELSE NoError
    /\ UNCHANGED <<text1, text2, ao1, ao2, call, result, lev_vars, scan_vars, rec_vars>>

\* a metric call on iaa returned r; an exception ends the program
Called(name, r) ==
    /\ call' = name
    /\ result' = r
    /\ pc' = IF r.raised = NoError THEN "iaa" ELSE "exit"
    /\ err' = r.raised
    /\ UNCHANGED <<text1, text2, ao1, ao2, lev_vars, scan_vars, rec_vars>>

CallNaiveAccuracy ==
    /\ pc = "iaa"
    /\ Called("naive_accuracy", naive_accuracy(ao1, ao2))

CallMeanNgreement ==
    /\ pc = "iaa"
    /\ \E n \in 1..MaxN : Called("mean_ngreement", mean_ngreement(ao1, ao2, n))

CallLevenshteinInclNormalized ==
    /\ pc = "iaa"
    /\ Called("levenshtein_incl_normalized", levenshtein_incl_normalized(ao1, ao2))

Next ==
    \/ ConstructAo1
    \/ ConstructAo2
    \/ ConstructIAA
    \/ CallNaiveAccuracy
    \/ CallMeanNgreement
    \/ CallLevenshteinInclNormalized

Spec == Init /\ [][Next]_vars

(* ------------- levenshtein on group lists, in both orders -------------- *)

InitLev ==
    /\ MainIdle
    /\ ScanIdle
    /\ RecIdle
    /\ lev_pc = "start"
    /\ \E p \in LevInputs : lev_ref = p[1] /\ lev_comp = p[2]
    /\ lev_fwd = 0
    /\ lev_bwd = 0

\* iaa.levenshtein(groups1, groups2)
LevForward ==
    /\ lev_pc = "start"
    /\ lev_fwd' = levenshtein(lev_ref, lev_comp)
    /\ lev_pc' = "forward"
    /\ UNCHANGED <<lev_ref, lev_comp, lev_bwd, main_vars, scan_vars, rec_vars>>

\* iaa.levenshtein(groups2, groups1)
LevBackward ==
    /\ lev_pc = "forward"
    /\ lev_bwd' = levenshtein(lev_comp, lev_ref)
    /\ lev_pc' = "done"
    /\ UNCHANGED <<lev_ref, lev_comp, lev_fwd, main_vars, scan_vars, rec_vars>>

NextLev ==
    \/ LevForward
    \/ LevBackward

SpecLev == InitLev /\ [][NextLev]_vars

(* ------------- annotation.py: the loop of _extract_indices ------------- *)

\* the token lists self.text_split can hold when _extract_indices starts
TokenLists ==
    UNION {[1..t -> Vocabulary \cup OddWords] : t \in 0..MaxTokens}

\* scan holds the locals and fields of _extract_indices, scan_num the
\* index of the next token; scan_prev is scan as it was at the top of
\* the last iteration and scan_opened the index of the token that last
\* took in_brackets from False to True (-1 before any)
InitScan ==
    /\ MainIdle
    /\ LevIdle
    /\ RecIdle
    /\ scan_pc = "loop"
    /\ scan_text_split \in TokenLists
    /\ scan_num = 0
    /\ scan = ScanStart
    /\ scan_prev = ScanStart
    /\ scan_opened = -1

\* one iteration of the for loop; an exception leaves the loop
ScanIterate ==
    /\ scan_pc = "loop"
    /\ scan_num < Len(scan_text_split)
    /\ scan' = ExtractStep(scan, scan_num, scan_text_split[scan_num + 1])
    /\ scan_prev' = scan
    /\ scan_opened' =
          IF ~scan.in_brackets
             /\ StartsWith(scan_text_split[scan_num + 1], opening_bracket)
          THEN scan_num ELSE scan_opened
    /\ scan_num' = scan_num + 1
    /\ scan_pc' = IF scan'.raised = NoError THEN "loop" ELSE "raised"
    /\ UNCHANGED <<scan_text_split, main_vars, lev_vars, rec_vars>>

\* the loop is exhausted and _extract_indices returns
ScanReturn ==
    /\ scan_pc = "loop"
    /\ scan_num = Len(scan_text_split)
    /\ scan_pc' = "done"
    /\ UNCHANGED <<scan_text_split, scan_num, scan, scan_prev, scan_opened,
                   main_vars, lev_vars, rec_vars>>

NextScan ==
    \/ ScanIterate
    \/ ScanReturn

SpecScan == InitScan /\ [][NextScan]_vars

(* --------------- the activations of one levenshtein call --------------- *)

\* group lists outside the shape the metrics produce: groups in any
\* order, overlapping, with indices that are not consecutive
OddGroups == { <<0>>, <<1>>, <<0, 1>>, <<1, 0>>, <<0, 2>>, <<2, 0>> }

OddGroupSeqs == UNION {[1..t -> OddGroups] : t \in 0..2}

RecInputs == LevInputs \cup (OddGroupSeqs \X OddGroupSeqs)

\* rec_ref and rec_comp are the arguments of the current activation,
\* rec_depth the number of activations above it, rec_acc the costs those
\* added, rec_caller the arguments of the activation that made the call,
\* rec_top those of the outermost one, rec_rule the branch last taken
InitRec ==
    /\ MainIdle
    /\ LevIdle
    /\ ScanIdle
    /\ rec_pc = "call"
    /\ \E p \in RecInputs : rec_ref = p[1] /\ rec_comp = p[2] /\ rec_top = p
    /\ rec_depth = 0
    /\ rec_acc = 0
    /\ rec_caller = <<<<>>, <<>>>>
    /\ rec_rule = "none"

\* the activation takes a recursive case and calls levenshtein once
RecRecurse ==
    /\ rec_pc = "call"
    /\ LET c == LevCall(rec_ref, rec_comp)
       IN  /\ ~c.base
           /\ rec_ref' = c.ref
           /\ rec_comp' = c.comp
           /\ rec_acc' = rec_acc + c.cost
           /\ rec_rule' = c.rule
    /\ rec_caller' = <<rec_ref, rec_comp>>
    /\ rec_depth' = rec_depth + 1
    /\ UNCHANGED <<rec_pc, rec_top, main_vars, lev_vars, scan_vars>>

\* the activation takes a base case; every activation above it returns
RecBase ==
    /\ rec_pc = "call"
    /\ LET c == LevCall(rec_ref, rec_comp)
       IN  /\ c.base
           /\ rec_acc' = rec_acc + c.cost
           /\ rec_rule' = c.rule
    /\ rec_pc' = "returned"
    /\ UNCHANGED <<rec_ref, rec_comp, rec_depth, rec_caller, rec_top,
                   main_vars, lev_vars, scan_vars>>

NextRec ==
    \/ RecRecurse
    \/ RecBase

SpecRec == InitRec /\ [][NextRec]_vars

(* ------------------------------- claims -------------------------------- *)

Constructed(a) == a.status = "ok"

AllGroups(a) == a.annotated_indices_groups \o a.not_annotated_indices_groups

\* the groups of a hold every token index exactly once and nothing else
Partitioned(a) ==
    LET all == AllGroups(a)
        n == Len(a.text_split)
    IN  /\ \A i \in 0..(n - 1) :
               Cardinality({k \in 1..Len(all) : InList(i, all[k])}) = 1
        /\ \A k \in 1..Len(all) :
               /\ ToSet(all[k]) \subseteq 0..(n - 1)
               /\ Cardinality(ToSet(all[k])) = Len(all[k])

\* C1: after construction every token index of an Annotation appears in
\* exactly one group of annotated_indices_groups +
\* not_annotated_indices_groups (the groups are pairwise disjoint and
\* their union is the full index range).
C1_GroupsPartitionIndices ==
    /\ Constructed(ao1) => Partitioned(ao1)
    /\ Constructed(ao2) => Partitioned(ao2)

\* C2: levenshtein(ref, comp) = levenshtein(comp, ref) for all lists of
\* pairwise disjoint groups of consecutive indices in ascending order.
C2_LevenshteinSymmetric ==
    lev_pc = "done" => lev_fwd = lev_bwd

\* C2 witness: both orders were computed on lists whose leading groups
\* overlap without being equal and whose two compatibility runs have the
\* same length.
C2_Witness ==
    /\ lev_pc = "done"
    /\ lev_ref # <<>> /\ lev_comp # <<>>
    /\ lev_ref[1] # lev_comp[1]
    /\ is_compatible(lev_ref[1], lev_comp[1])
    /\ _find_compatible_index_boundary(lev_comp[1], lev_ref)
         = _find_compatible_index_boundary(lev_ref[1], lev_comp)
    /\ Len(lev_ref) # Len(lev_comp)
    /\ lev_fwd > 0

\* C3: mean_ngreement(n) is a value in [0, 1] for every agreement pair
\* and every exponent n >= 1.
C3_MeanNgreementInUnitInterval ==
    call = "mean_ngreement" =>
        /\ FracLeq(<<0, 1>>, result.value)
        /\ FracLeq(result.value, <<1, 1>>)

\* C4: when both annotations have no annotated group, mean_ngreement
\* returns exactly 1.0.
C4_NoMarkablesGiveOne ==
    (/\ call = "mean_ngreement"
     /\ ao1.annotated_indices_groups = <<>>
     /\ ao2.annotated_indices_groups = <<>>) => result.value = <<1, 1>>

\* C5 as stated: when both Annotations are built from the same text,
\* mean_ngreement returns 1.0.
C5_SameTextGivesOne ==
    (call = "mean_ngreement" /\ text1 = text2) => result.value = <<1, 1>>

\* C5 amended: when both Annotations are built from the same text and
\* that text yields at least one annotated group and at least one
\* non-annotated group, mean_ngreement returns 1.0.
C5_SameTextWithBothKindsGivesOne ==
    (/\ call = "mean_ngreement"
     /\ text1 = text2
     /\ ao1.annotated_indices_groups # <<>>
     /\ ao1.not_annotated_indices_groups # <<>>) => result.value = <<1, 1>>

\* C5 witness: mean_ngreement was called on a pair built from one text
\* with a markable of several tokens and an unannotated token.
C5_Witness ==
    /\ call = "mean_ngreement"
    /\ text1 = text2
    /\ \E k \in 1..Len(ao1.annotated_indices_groups) :
           Len(ao1.annotated_indices_groups[k]) > 1
    /\ ao1.not_annotated_indices_groups # <<>>
    /\ result.n > 1
    /\ result.value = <<1, 1>>

MarkableCount(a) == Len(a.annotated_indices_groups)

MaxMarkableCount ==
    IF MarkableCount(ao1) > MarkableCount(ao2)
    THEN MarkableCount(ao1) ELSE MarkableCount(ao2)

\* C7 as stated: the normalized distance equals distance / max(number of
\* annotated groups of annotation 1, of annotation 2) whenever at least
\* one annotation has an annotated group.
C7_NormalizedByMax ==
    (call = "levenshtein_incl_normalized" /\ MaxMarkableCount > 0) =>
        /\ result.raised = NoError
        /\ result.value[1] * MaxMarkableCount = result.distance * result.value[2]

\* C7 amended: the normalized distance equals distance divided by the
\* mean of the two numbers of annotated groups, (count1 + count2) / 2,
\* whenever at least one annotation has an annotated group.
C7_NormalizedByMean ==
    (call = "levenshtein_incl_normalized" /\ MaxMarkableCount > 0) =>
        /\ result.raised = NoError
        /\ result.distance
             = levenshtein(ao1.annotated_indices_groups, ao2.annotated_indices_groups)
        /\ result.value[1] * (MarkableCount(ao1) + MarkableCount(ao2))
             = 2 * result.distance * result.value[2]

\* C7 witness: the normalized distance of a pair with different numbers
\* of markables and a distance above zero.
C7_Witness ==
    /\ call = "levenshtein_incl_normalized"
    /\ MarkableCount(ao1) > MarkableCount(ao2)
    /\ MarkableCount(ao2) > 0
    /\ result.distance > 0
    /\ result.raised = NoError

Blank(text) == \A i \in 1..Len(text) : text[i] \in Whitespace

\* C8: constructing an Annotation fails with the input error whenever the
\* text is empty or only whitespace, so no Annotation has an empty token
\* sequence.
C8_BlankTextRejected ==
    /\ (ao1.status # "none" /\ Blank(text1)) => ao1.status = ValueError
    /\ (ao2.status # "none" /\ Blank(text2)) => ao2.status = ValueError
    /\ Constructed(ao1) => ao1.text_split # <<>>
    /\ Constructed(ao2) => ao2.text_split # <<>>

\* C9: on a constructed agreement pair, naive_accuracy, mean_ngreement
\* and levenshtein_incl_normalized return a number and never raise.
C9_MetricsNeverRaise ==
    call # "none" => result.raised = NoError

\* C10 as stated: levenshtein(groups1, groups2b) is 2 in either argument
\* order.
C10_DemoCostsTwo ==
    (lev_pc = "done" /\ lev_ref = groups1 /\ lev_comp = groups2b) =>
        (lev_fwd = 2 /\ lev_bwd = 2)

\* C10 amended: levenshtein(groups1, groups2b) is 3 in either argument
\* order: one merge, one reshaped group and one extra trailing group
\* cost one each.
C10_DemoCostsThree ==
    (lev_pc = "done" /\ lev_ref = groups1 /\ lev_comp = groups2b) =>
        (lev_fwd = 3 /\ lev_bwd = 3)

\* C10 witness: both orders of the example were computed.
C10_Witness ==
    lev_pc = "done" /\ lev_ref = groups1 /\ lev_comp = groups2b /\ lev_fwd > 0

\* the token of the last iteration and its index
LastNum == scan_num - 1

LastWord == scan_text_split[scan_num]

\* C11: every token processed while the scan is OUTSIDE that does not
\* start with the opening bracket adds exactly one singleton group
\* [index] to the non-annotated groups, appends nothing to the annotated
\* groups and leaves the scan OUTSIDE, also when the token ends in the
\* closing bracket.
C11_OutsideTokenIsSingleton ==
    (/\ scan_num > 0
     /\ ~scan_prev.in_brackets
     /\ ~StartsWith(LastWord, opening_bracket)) =>
        /\ scan.raised = NoError
        /\ scan.not_annotated_indices_groups
             = Append(scan_prev.not_annotated_indices_groups, <<LastNum>>)
        /\ scan.annotated_indices_groups = scan_prev.annotated_indices_groups
        /\ ~scan.in_brackets

\* the list of the indices first..last
Range(first, last) == [i \in 1..(last - first + 1) |-> first + i - 1]

\* the last iteration appended a group while a markable was open
ClosedMarkable ==
    /\ scan_num > 0
    /\ scan.raised = NoError
    /\ scan_prev.in_brackets \/ StartsWith(LastWord, opening_bracket)
    /\ Len(scan.annotated_indices_groups)
         = Len(scan_prev.annotated_indices_groups) + 1

\* C12: a token that starts with the opening bracket while the scan is
\* already INSIDE does not start a second group: its index is added to
\* the current group, and a group appended on closing holds every token
\* index from the token that opened the markable through the token that
\* closed it.
C12_OpeningInsideExtendsGroup ==
    /\ (/\ scan_num > 0
         /\ scan_prev.in_brackets
         /\ StartsWith(LastWord, opening_bracket)) =>
            scan.group = Append(scan_prev.group, LastNum)
    /\ ClosedMarkable =>
            scan.annotated_indices_groups[Len(scan.annotated_indices_groups)]
              = Range(scan_opened, LastNum)

GroupCount(pair) == Len(pair[1]) + Len(pair[2])

\* C13: every recursive call of levenshtein is made on a pair whose total
\* group count is strictly smaller than its caller's, so the recursion
\* depth is at most len(ref) + len(comp) of the outermost call and the
\* call returns.
C13_RecursionShrinks ==
    /\ rec_depth > 0 => GroupCount(<<rec_ref, rec_comp>>) < GroupCount(rec_caller)
    /\ rec_depth + GroupCount(<<rec_ref, rec_comp>>) <= GroupCount(rec_top)
    /\ rec_depth <= GroupCount(rec_top)
    /\ rec_pc = "returned" \/ ENABLED NextRec

\* C13 witness: a recursive call made by rule 4 with a compatibility run
\* of length 0 in the reference list, which is passed on whole.
C13_Witness ==
    /\ rec_depth > 0
    /\ rec_rule = "transform_ref"
    /\ _find_compatible_index_boundary(rec_caller[2][1], rec_caller[1]) = 0
    /\ rec_ref = rec_caller[1]
    /\ Len(rec_comp) = Len(rec_caller[2]) - 1

====
